---------------------------- MODULE Spec2Model ----------------------------
(* Model of server/routes/games.py: the /api/games resource handlers      *)
(* (list, get by id, create, update, delete) over the Game, Category and  *)
(* Publisher tables reached through db.session.                           *)
EXTENDS Integers, Sequences, FiniteSets, TLC

\* Largest primary key the games table hands out (caps the id sequence).
MaxId == 2

\* Python None / SQL NULL for the integer columns and for star_rating.
NULL == 0

Fields == {"title", "description", "category_id", "publisher_id", "star_rating"}

\* Values a request body may carry for each key.  "" stands for a string the
\* Game model's validator rejects.  Category 1 and publisher 2 exist; category 2
\* and publisher 1 do not.
TitleVals == {"T1", ""}
DescriptionVals == {"D1", ""}
CategoryIdVals == {1, 2}
PublisherIdVals == {1, 2}
StarRatingVals == {NULL, 5}

\* Ids a request path may name: every id the table can hold and one it never holds.
RequestIds == 1..(MaxId + 1)

VARIABLES
  games,       \* Game table: id -> row, for the ids that have a row
  categories,  \* ids of the Category rows
  publishers,  \* ids of the Publisher rows
  next_id,     \* next primary key of the games table
  session,     \* db.session: the pending (unflushed) changes
  pc,          \* "idle": no request in progress; "done": a response is ready
  req,         \* the request being answered
  resp,        \* its response
  pre,         \* the Game table when the request arrived
  last_deleted, \* the id the previous request deleted (with a 204), or NULL
  upd,         \* interleaved update_game requests: each one's position and session
  commits      \* the interleaved requests whose commit succeeded, in commit order

vars == <<games, categories, publishers, next_id, session, pc, req, resp, pre, last_deleted,
          upd, commits>>

-----------------------------------------------------------------------------
(* Request bodies: request.get_json(silent=True).  A dict is a record of  *)
(* the keys it has (has) and their values; json = FALSE is a body that is *)
(* absent or not JSON (get_json returns None).                            *)

Body(h, t, d, c, p, s) ==
  [json |-> TRUE, has |-> h,
   title |-> IF "title" \in h THEN t ELSE "",
   description |-> IF "description" \in h THEN d ELSE "",
   category_id |-> IF "category_id" \in h THEN c ELSE NULL,
   publisher_id |-> IF "publisher_id" \in h THEN p ELSE NULL,
   star_rating |-> IF "star_rating" \in h THEN s ELSE NULL]

NoBody ==
  [json |-> FALSE, has |-> {}, title |-> "", description |-> "",
   category_id |-> NULL, publisher_id |-> NULL, star_rating |-> NULL]

Bodies ==
  {NoBody} \cup
  {Body(h, t, d, c, p, s) : h \in SUBSET Fields, t \in TitleVals, d \in DescriptionVals,
                            c \in CategoryIdVals, p \in PublisherIdVals, s \in StarRatingVals}

\* data[key] for the five column keys
Vals(data) ==
  [title |-> data.title, description |-> data.description,
   category_id |-> data.category_id, publisher_id |-> data.publisher_id,
   star_rating |-> data.star_rating]

\* `not data`: None and the empty dict are both falsy
not_data(data) == ~data.json \/ data.has = {}

NoRow ==
  [title |-> "", description |-> "", category_id |-> NULL, publisher_id |-> NULL,
   star_rating |-> NULL]

\* The table before any request: one game without category and publisher.
SeedGames ==
  (1 :> [title |-> "T0", description |-> "D0", category_id |-> NULL,
         publisher_id |-> NULL, star_rating |-> NULL])

EmptyGames == [i \in {} |-> NoRow]

-----------------------------------------------------------------------------
(* The collaborators of the handlers: the Game model and db.session.      *)

\* Game.to_dict(): the JSON-compatible mapping of a row
to_dict(id, row) ==
  [id |-> id, title |-> row.title, description |-> row.description,
   category_id |-> row.category_id, publisher_id |-> row.publisher_id,
   star_rating |-> row.star_rating]

\* The Game model's validators: setting this attribute to data's value raises ValueError
raises_ValueError(field, data) ==
  \/ field = "title" /\ data.title = ""
  \/ field = "description" /\ data.description = ""

\* str(e) of that ValueError
ValueError_message(field) == IF field = "title" THEN "Invalid title" ELSE "Invalid description"

\* db.session.query(Game).filter(Game.id == id).first(): the row's id, or NULL
query_game(g, id) == IF id \in DOMAIN g THEN id ELSE NULL

\* Variant of query_category: the check tests the supplied id, not the row it names
query_category_nonnull(cid) == cid # NULL

\* db.session.query(Category).filter(Category.id == cid).first() is not None
query_category(cid) == cid \in categories

\* Variant of query_publisher: the check tests the supplied id, not the row it names
query_publisher_nonnull(pid) == pid # NULL

\* db.session.query(Publisher).filter(Publisher.id == pid).first() is not None
query_publisher(pid) == pid \in publishers

\* The left outer joins keep every Game row, with or without publisher and category.
get_games_base_query(g) == DOMAIN g

\* Pending changes of a session
pending_add(row) == [kind |-> "add", id |-> NULL, field |-> "", vals |-> row]
pending_set(id, field, vals) == [kind |-> "set", id |-> id, field |-> field, vals |-> vals]
pending_delete(id) == [kind |-> "delete", id |-> id, field |-> "", vals |-> NoRow]

\* The value a committed session leaves in column f of game id
flushed(g, sess, id, f) ==
  IF \E c \in sess : c.kind = "set" /\ c.id = id /\ c.field = f
  THEN (CHOOSE c \in sess : c.kind = "set" /\ c.id = id /\ c.field = f).vals[f]
  ELSE g[id][f]

\* db.session.commit() without an IntegrityError: the table after the flush
commit(g, nid, sess) ==
  LET deleted == {c.id : c \in {x \in sess : x.kind = "delete"}}
      added == {c \in sess : c.kind = "add"}
      kept == (DOMAIN g) \ deleted
      new == IF added = {} THEN {} ELSE {nid}
  IN [i \in kept \cup new |->
        IF i \in kept
        THEN [title |-> flushed(g, sess, i, "title"),
              description |-> flushed(g, sess, i, "description"),
              category_id |-> flushed(g, sess, i, "category_id"),
              publisher_id |-> flushed(g, sess, i, "publisher_id"),
              star_rating |-> flushed(g, sess, i, "star_rating")]
        ELSE (CHOOSE c \in added : TRUE).vals]

\* Variant of rollback: the pending changes stay in the session
rollback_nothing(sess) == sess

\* db.session.rollback(): the pending changes are dropped
rollback(sess) == {}

-----------------------------------------------------------------------------
(* Responses.  body is the JSON payload's list of game mappings (one for  *)
(* a single game, none for an error or an empty payload); missing is the  *)
(* list of names an error message carries; raised is the exception the    *)
(* handler caught; rolled_back says db.session.rollback() was called.     *)

Response(status, error, missing, body, raised, rolled_back) ==
  [status |-> status, error |-> error, missing |-> missing, body |-> body,
   raised |-> raised, rolled_back |-> rolled_back]

Error(status, error) == Response(status, error, <<>>, <<>>, "", FALSE)

\* What a handler leaves behind: the table, the id sequence, the session, the response
Outcome(g, nid, sess, r) == [games |-> g, next_id |-> nid, session |-> sess, resp |-> r]

NoReq == [op |-> "", id |-> NULL, data |-> NoBody]
NoResp == Response(0, "", <<>>, <<>>, "", FALSE)

-----------------------------------------------------------------------------
(* The handlers.  Each operator follows its function's control flow and   *)
(* gives the Outcome of one call; ierr says whether db.session.commit()   *)
(* raises IntegrityError (the database's decision).                       *)

required_fields == <<"title", "description", "category_id", "publisher_id">>

\* Variant of missing_fields: the scan stops at the first missing field
missing_fields_first(data) ==
  LET all == SelectSeq(required_fields, LAMBDA f : f \notin data.has)
  IN IF all = <<>> THEN <<>> ELSE <<Head(all)>>

\* [field for field in required_fields if field not in data]
missing_fields(data) == SelectSeq(required_fields, LAMBDA f : f \notin data.has)

\* Variant of Game: the constructor call leaves star_rating out
Game_without_star_rating(data) ==
  [raised |-> IF raises_ValueError("title", data) THEN "title"
              ELSE IF raises_ValueError("description", data) THEN "description"
              ELSE "",
   row |-> [title |-> data.title, description |-> data.description,
            category_id |-> data.category_id, publisher_id |-> data.publisher_id,
            star_rating |-> NULL]]

\* Game(title=..., description=..., category_id=..., publisher_id=..., star_rating=...):
\* the new row, or the attribute whose validator raised ValueError
Game(data) ==
  [raised |-> IF raises_ValueError("title", data) THEN "title"
              ELSE IF raises_ValueError("description", data) THEN "description"
              ELSE "",
   row |-> [title |-> data.title, description |-> data.description,
            category_id |-> data.category_id, publisher_id |-> data.publisher_id,
            star_rating |-> IF "star_rating" \in data.has THEN data.star_rating ELSE NULL]]

\* The ascending sequence of the ids in S
RECURSIVE sorted_ids(_)
sorted_ids(S) ==
  IF S = {} THEN <<>>
  ELSE LET m == CHOOSE x \in S : \A y \in S : x <= y
       IN <<m>> \o sorted_ids(S \ {m})

get_games_handler ==
  LET ids == sorted_ids(get_games_base_query(games))
  IN Outcome(games, next_id, session,
             Response(200, "", <<>>, [k \in 1..Len(ids) |-> to_dict(ids[k], games[ids[k]])],
                      "", FALSE))

\* Variant of get_game_handler: the query lacks filter(Game.id == id)
get_game_handler_unfiltered(id) ==
  LET ids == sorted_ids(get_games_base_query(games))
      game_query == IF ids = <<>> THEN NULL ELSE Head(ids)
  IN IF game_query = NULL
     THEN Outcome(games, next_id, session, Error(404, "Game not found"))
     ELSE Outcome(games, next_id, session,
                  Response(200, "", <<>>, <<to_dict(game_query, games[game_query])>>,
                           "", FALSE))

get_game_handler(id) ==
  LET game_query == IF id \in get_games_base_query(games) THEN id ELSE NULL
  IN IF game_query = NULL
     THEN Outcome(games, next_id, session, Error(404, "Game not found"))
     ELSE Outcome(games, next_id, session,
                  Response(200, "", <<>>, <<to_dict(game_query, games[game_query])>>,
                           "", FALSE))

create_game_handler(data, ierr) ==
  IF not_data(data)
  THEN Outcome(games, next_id, session, Error(400, "Request body must be JSON"))
  ELSE IF missing_fields(data) # <<>>
  THEN Outcome(games, next_id, session,
               Response(400, "Missing required fields", missing_fields(data), <<>>,
                        "", FALSE))
  ELSE IF ~query_category(data.category_id)
  THEN Outcome(games, next_id, session, Error(400, "Category not found"))
  ELSE IF ~query_publisher(data.publisher_id)
  THEN Outcome(games, next_id, session, Error(400, "Publisher not found"))
  ELSE LET game == Game(data) IN
    IF game.raised # ""
    THEN Outcome(games, next_id, rollback(session),
                 Response(400, ValueError_message(game.raised), <<>>, <<>>,
                          "ValueError", TRUE))
    ELSE LET added == session \cup {pending_add(game.row)} IN
      IF ierr
      THEN Outcome(games, next_id, rollback(added),
                   Response(400, "Database integrity error", <<>>, <<>>,
                            "IntegrityError", TRUE))
      ELSE LET stored == commit(games, next_id, added) IN
        Outcome(stored, next_id + 1, {},
                Response(201, "", <<>>, <<to_dict(next_id, stored[next_id])>>,
                         "", FALSE))

\* The assignments of update_game's try block, in their order, from the i-th on:
\* the session with the attributes set so far, and the attribute that raised
update_fields == <<"title", "description", "category_id", "publisher_id", "star_rating">>

\* Variant of assign: every column is set from data.get(key), supplied or not
assign_all(i, game, data, sess) ==
  [session |-> sess \cup {pending_set(game, f, Vals(data)) : f \in Fields}, raised |-> ""]

RECURSIVE assign(_, _, _, _)
assign(i, game, data, sess) ==
  IF i > Len(update_fields) THEN [session |-> sess, raised |-> ""]
  ELSE LET f == update_fields[i] IN
    IF f \notin data.has THEN assign(i + 1, game, data, sess)
    ELSE IF raises_ValueError(f, data) THEN [session |-> sess, raised |-> f]
    ELSE assign(i + 1, game, data, sess \cup {pending_set(game, f, Vals(data))})

\* Variant of update_game_handler: the attributes are assigned before category and
\* publisher are validated
update_game_handler_late_validation(id, data, ierr) ==
  LET game == query_game(games, id) IN
  IF game = NULL
  THEN Outcome(games, next_id, session, Error(404, "Game not found"))
  ELSE IF not_data(data)
  THEN Outcome(games, next_id, session, Error(400, "Request body must be JSON"))
  ELSE LET set == assign(1, game, data, session) IN
    IF set.raised # ""
    THEN Outcome(games, next_id, rollback(set.session),
                 Response(400, ValueError_message(set.raised), <<>>, <<>>,
                          "ValueError", TRUE))
    ELSE IF "category_id" \in data.has /\ ~query_category(data.category_id)
    THEN Outcome(games, next_id, set.session, Error(400, "Category not found"))
    ELSE IF "publisher_id" \in data.has /\ ~query_publisher(data.publisher_id)
    THEN Outcome(games, next_id, set.session, Error(400, "Publisher not found"))
    ELSE IF ierr
    THEN Outcome(games, next_id, rollback(set.session),
                 Response(400, "Database integrity error", <<>>, <<>>,
                          "IntegrityError", TRUE))
    ELSE LET stored == commit(games, next_id, set.session) IN
      Outcome(stored, next_id, {},
              Response(200, "", <<>>, <<to_dict(game, stored[game])>>, "", FALSE))

update_game_handler(id, data, ierr) ==
  LET game == query_game(games, id) IN
  IF game = NULL
  THEN Outcome(games, next_id, session, Error(404, "Game not found"))
  ELSE IF not_data(data)
  THEN Outcome(games, next_id, session, Error(400, "Request body must be JSON"))
  ELSE IF "category_id" \in data.has /\ ~query_category(data.category_id)
  THEN Outcome(games, next_id, session, Error(400, "Category not found"))
  ELSE IF "publisher_id" \in data.has /\ ~query_publisher(data.publisher_id)
  THEN Outcome(games, next_id, session, Error(400, "Publisher not found"))
  ELSE LET set == assign(1, game, data, session) IN
    IF set.raised # ""
    THEN Outcome(games, next_id, rollback(set.session),
                 Response(400, ValueError_message(set.raised), <<>>, <<>>,
                          "ValueError", TRUE))
    ELSE IF ierr
    THEN Outcome(games, next_id, rollback(set.session),
                 Response(400, "Database integrity error", <<>>, <<>>,
                          "IntegrityError", TRUE))
    ELSE LET stored == commit(games, next_id, set.session) IN
      Outcome(stored, next_id, {},
              Response(200, "", <<>>, <<to_dict(game, stored[game])>>, "", FALSE))

\* Variant of delete_game_handler: the 204 is returned without db.session.commit()
delete_game_handler_uncommitted(id, ierr) ==
  LET game == query_game(games, id) IN
  IF game = NULL
  THEN Outcome(games, next_id, session, Error(404, "Game not found"))
  ELSE Outcome(games, next_id, session \cup {pending_delete(game)},
               Response(204, "", <<>>, <<>>, "", FALSE))

delete_game_handler(id, ierr) ==
  LET game == query_game(games, id) IN
  IF game = NULL
  THEN Outcome(games, next_id, session, Error(404, "Game not found"))
  ELSE LET deleted == session \cup {pending_delete(game)} IN
    IF ierr
    THEN Outcome(games, next_id, rollback(deleted),
                 Response(400, "Database integrity error", <<>>, <<>>,
                          "IntegrityError", TRUE))
    ELSE Outcome(commit(games, next_id, deleted), next_id, {},
                 Response(204, "", <<>>, <<>>, "", FALSE))

\* The update_game requests that run interleaved
Requests == {1, 2}

\* Where an interleaved update_game stands: at = "start" before line 93, "found" after
\* line 102, "category" after line 108, "publisher" after line 114, "assigned" before
\* line 129, "done" once it has returned.  loaded is the row as the query read it.
Request(at, id, data, loaded, sess, r) ==
  [at |-> at, id |-> id, data |-> data, loaded |-> loaded, session |-> sess, resp |-> r]

NotStarted == Request("start", NULL, NoBody, NoRow, {}, NoResp)

-----------------------------------------------------------------------------
(* The state machine: one request at a time, each handled in one step.    *)

Init ==
  /\ games \in {EmptyGames, SeedGames}
  /\ categories = {1}
  /\ publishers = {2}
  /\ next_id = IF games = EmptyGames THEN 1 ELSE 2
  /\ session = {}
  /\ pc = "idle"
  /\ req = NoReq
  /\ resp = NoResp
  /\ pre = games
  /\ last_deleted = NULL
  /\ upd = [p \in Requests |-> NotStarted]
  /\ commits = <<>>

\* The handler's outcome becomes the state; the request and the table it met are kept
Handle(op, id, data, o) ==
  /\ pc = "idle"
  /\ games' = o.games
  /\ next_id' = o.next_id
  /\ session' = o.session
  /\ resp' = o.resp
  /\ req' = [op |-> op, id |-> id, data |-> data]
  /\ pre' = games
  /\ pc' = "done"
  /\ UNCHANGED <<categories, publishers, last_deleted, upd, commits>>

get_games ==
  /\ pc = "idle"
  /\ \E o \in {get_games_handler} : Handle("get_games", NULL, NoBody, o)

get_game(id) ==
  /\ pc = "idle"
  /\ \E o \in {get_game_handler(id)} : Handle("get_game", id, NoBody, o)

\* The id sequence stops at MaxId: no insert is tried beyond it
create_game(data) ==
  /\ pc = "idle"
  /\ \E o \in {create_game_handler(data, ierr) : ierr \in BOOLEAN} :
       /\ (o.resp.status = 201 \/ o.resp.raised = "IntegrityError") => next_id <= MaxId
       /\ Handle("create_game", NULL, data, o)

update_game(id, data) ==
  /\ pc = "idle"
  /\ \E o \in {update_game_handler(id, data, ierr) : ierr \in BOOLEAN} :
       Handle("update_game", id, data, o)

delete_game(id) ==
  /\ pc = "idle"
  /\ \E o \in {delete_game_handler(id, ierr) : ierr \in BOOLEAN} :
       Handle("delete_game", id, NoBody, o)

\* The response leaves the server; the next request may come
Respond ==
  /\ pc = "done"
  /\ pc' = "idle"
  /\ req' = NoReq
  /\ resp' = NoResp
  /\ pre' = games
  /\ last_deleted' = IF req.op = "delete_game" /\ resp.status = 204 THEN req.id ELSE NULL
  /\ UNCHANGED <<games, categories, publishers, next_id, session, upd, commits>>

Next ==
  \/ get_games
  \/ \E id \in RequestIds : get_game(id)
  \/ \E data \in Bodies : create_game(data)
  \/ \E id \in RequestIds, data \in Bodies : update_game(id, data)
  \/ \E id \in RequestIds : delete_game(id)
  \/ Respond

Spec == Init /\ [][Next]_vars

-----------------------------------------------------------------------------
(* update_game requests served concurrently, each with a session of its   *)
(* own.  A step is what a request does up to and including its next       *)
(* access to the database; the database serves one access at a time.      *)

\* The bodies of the interleaved requests
UpdateBodies ==
  {NoBody} \cup
  {Body(h, t, "D1", c, 2, 5) : h \in SUBSET Fields, t \in {"T1", "T2", ""}, c \in {1, 2}}

Finish(p, sess, r) ==
  upd' = [upd EXCEPT ![p] = Request("done", upd[p].id, upd[p].data, upd[p].loaded, sess, r)]

Advance(p, at, sess) ==
  upd' = [upd EXCEPT ![p] = Request(at, upd[p].id, upd[p].data, upd[p].loaded, sess,
                                    NoResp)]

ServerIdle == UNCHANGED <<categories, publishers, next_id, session, pc, req, resp, pre,
                          last_deleted>>

\* Lines 93-102: the game is queried, then the body is read
u_find(p, id, data) ==
  /\ upd[p].at = "start"
  /\ LET game == query_game(games, id) IN
       IF game = NULL
       THEN upd' = [upd EXCEPT ![p] = Request("done", id, data, NoRow, {},
                                              Error(404, "Game not found"))]
       ELSE IF not_data(data)
       THEN upd' = [upd EXCEPT ![p] = Request("done", id, data, games[game], {},
                                              Error(400, "Request body must be JSON"))]
       ELSE upd' = [upd EXCEPT ![p] = Request("found", id, data, games[game], {}, NoResp)]
  /\ UNCHANGED <<games, commits>>
  /\ ServerIdle

\* Lines 104-108
u_validate_category(p) ==
  /\ upd[p].at = "found"
  /\ IF "category_id" \in upd[p].data.has /\ ~query_category(upd[p].data.category_id)
     THEN Finish(p, upd[p].session, Error(400, "Category not found"))
     ELSE Advance(p, "category", upd[p].session)
  /\ UNCHANGED <<games, commits>>
  /\ ServerIdle

\* Lines 110-114
u_validate_publisher(p) ==
  /\ upd[p].at = "category"
  /\ IF "publisher_id" \in upd[p].data.has /\ ~query_publisher(upd[p].data.publisher_id)
     THEN Finish(p, upd[p].session, Error(400, "Publisher not found"))
     ELSE Advance(p, "publisher", upd[p].session)
  /\ UNCHANGED <<games, commits>>
  /\ ServerIdle

\* Lines 116-127, and lines 133-135 when an assignment raises ValueError
u_assign(p) ==
  /\ upd[p].at = "publisher"
  /\ \E set \in {assign(1, upd[p].id, upd[p].data, upd[p].session)} :
       IF set.raised # ""
       THEN Finish(p, rollback(set.session),
                   Response(400, ValueError_message(set.raised), <<>>, <<>>,
                            "ValueError", TRUE))
       ELSE Advance(p, "assigned", set.session)
  /\ UNCHANGED <<games, commits>>
  /\ ServerIdle

\* Variant of u_commit: the commit is refused when the row is no longer as it was read
u_commit_versioned(p) ==
  /\ upd[p].at = "assigned"
  /\ IF games[upd[p].id] # upd[p].loaded
     THEN /\ Finish(p, rollback(upd[p].session), Error(409, "Conflict"))
          /\ UNCHANGED <<games, commits>>
     ELSE \E stored \in {commit(games, next_id, upd[p].session)} :
            /\ games' = stored
            /\ commits' = Append(commits, p)
            /\ Finish(p, {}, Response(200, "", <<>>,
                                      <<to_dict(upd[p].id, stored[upd[p].id])>>, "", FALSE))
  /\ ServerIdle

\* Lines 129-132, and lines 136-138 when the commit raises IntegrityError
u_commit(p) ==
  /\ upd[p].at = "assigned"
  /\ \E ierr \in BOOLEAN :
       IF ierr
       THEN /\ Finish(p, rollback(upd[p].session),
                      Response(400, "Database integrity error", <<>>, <<>>,
                               "IntegrityError", TRUE))
            /\ UNCHANGED <<games, commits>>
       ELSE \E stored \in {commit(games, next_id, upd[p].session)} :
              /\ games' = stored
              /\ commits' = Append(commits, p)
              /\ Finish(p, {}, Response(200, "", <<>>,
                                        <<to_dict(upd[p].id, stored[upd[p].id])>>, "", FALSE))
  /\ ServerIdle

InitInterleaved ==
  /\ Init
  /\ games = SeedGames

NextInterleaved ==
  \E p \in Requests :
    \/ \E id \in {1, 2}, data \in UpdateBodies : u_find(p, id, data)
    \/ u_validate_category(p)
    \/ u_validate_publisher(p)
    \/ u_assign(p)
    \/ u_commit(p)

SpecInterleaved == InitInterleaved /\ [][NextInterleaved]_vars

-----------------------------------------------------------------------------
(* Properties of the handlers, stated on the state a request leaves:      *)
(* req is the request, pre the table it met, games the table it left.     *)

Answered(op) == pc = "done" /\ req.op = op

Mutating == {"create_game", "update_game", "delete_game"}

RequiredKeys == {"title", "description", "category_id", "publisher_id"}

\* Every row of pre other than id is stored unchanged
OthersUnchanged(id) ==
  \A i \in (DOMAIN pre) \ {id} : i \in DOMAIN games /\ games[i] = pre[i]

\* C1: every stored Game whose category_id is set references an existing Category
\* row, and whose publisher_id is set references an existing Publisher row.
C1_ReferentialIntegrity ==
  \A i \in DOMAIN games :
    /\ games[i].category_id # NULL => games[i].category_id \in categories
    /\ games[i].publisher_id # NULL => games[i].publisher_id \in publishers

\* An update has stored a category and a publisher on a row that had none.
C1_Witness ==
  /\ Answered("update_game") /\ resp.status = 200
  /\ {"category_id", "publisher_id"} \subseteq req.data.has
  /\ pre[req.id].category_id = NULL /\ games[req.id].category_id # NULL
  /\ pre[req.id].publisher_id = NULL /\ games[req.id].publisher_id # NULL

\* C2: get_game(id) answers 404 {"error": "Game not found"} when no row has that id,
\* and otherwise 200 with that game's serialization; it leaves the table as it was.
C2_GetGame ==
  Answered("get_game") =>
    /\ games = pre
    /\ req.id \notin DOMAIN pre =>
         resp.status = 404 /\ resp.error = "Game not found" /\ resp.body = <<>>
    /\ req.id \in DOMAIN pre =>
         resp.status = 200 /\ resp.error = "" /\ resp.body = <<to_dict(req.id, pre[req.id])>>

\* get_game on an id without a row, while another row exists.
C2_Witness ==
  /\ Answered("get_game") /\ req.id \notin DOMAIN pre /\ DOMAIN pre # {}
  /\ resp.status = 404

\* C3: create_game with all four required keys answers 400 "Category not found"
\* when category_id matches no Category row, and 400 "Publisher not found" when the
\* category exists and publisher_id matches no Publisher row; no row is created.
C3_CreateUnknownReference ==
  (Answered("create_game") /\ req.data.json /\ RequiredKeys \subseteq req.data.has) =>
    /\ req.data.category_id \notin categories =>
         resp.status = 400 /\ resp.error = "Category not found" /\ games = pre
    /\ (req.data.category_id \in categories /\ req.data.publisher_id \notin publishers) =>
         resp.status = 400 /\ resp.error = "Publisher not found" /\ games = pre

\* create_game with an existing category and a publisher_id without a row.
C3_Witness ==
  /\ Answered("create_game") /\ RequiredKeys \subseteq req.data.has
  /\ req.data.category_id \in categories /\ req.data.publisher_id \notin publishers
  /\ resp.error = "Publisher not found"

\* C4: create_game with a non-empty JSON body that lacks some required keys answers
\* 400 with a message listing exactly the missing names, creates no row, and does
\* so before any existence check of category or publisher.
C4_MissingFields ==
  (Answered("create_game") /\ req.data.json /\ req.data.has # {}
     /\ RequiredKeys \ req.data.has # {}) =>
    /\ resp.status = 400 /\ resp.error = "Missing required fields"
    /\ {resp.missing[k] : k \in 1..Len(resp.missing)} = RequiredKeys \ req.data.has
    /\ Len(resp.missing) = Cardinality(RequiredKeys \ req.data.has)
    /\ games = pre

\* A body without title and publisher_id whose category_id matches no Category row.
C4_Witness ==
  /\ Answered("create_game")
  /\ RequiredKeys \ req.data.has = {"title", "publisher_id"}
  /\ req.data.category_id \notin categories
  /\ resp.missing = <<"title", "publisher_id">>

\* The body of a create_game request names existing rows and has every required key
ValidCreate ==
  /\ Answered("create_game") /\ req.data.json /\ RequiredKeys \subseteq req.data.has
  /\ req.data.category_id \in categories /\ req.data.publisher_id \in publishers

\* The request added exactly one row, with the requested values, and answered 201
Created ==
  /\ resp.status = 201
  /\ Len(resp.body) = 1
  /\ resp.body[1].category_id = req.data.category_id
  /\ resp.body[1].publisher_id = req.data.publisher_id
  /\ \E n \in DOMAIN games :
       /\ n \notin DOMAIN pre
       /\ DOMAIN games = DOMAIN pre \cup {n}
       /\ resp.body[1].id = n
       /\ games[n] = Vals(req.data)
  /\ OthersUnchanged(NULL)

\* C5 as claimed: every create_game whose body has title, description, an existing
\* category_id and an existing publisher_id answers 201 and adds exactly that row.
C5_AsClaimed == ValidCreate => Created

\* C5 as amended: such a request answers 201 and adds exactly that row unless the
\* Game constructor raises ValueError or the commit raises IntegrityError; then it
\* answers 400 and the table is as it was.
C5_CreateValid ==
  ValidCreate =>
    /\ resp.raised = "" => Created
    /\ resp.raised # "" => (resp.status = 400 /\ games = pre)
    /\ resp.raised = "ValueError" <=>
         (raises_ValueError("title", req.data) \/ raises_ValueError("description", req.data))

\* A 201 with a star_rating, next to a row that was already stored.
C5_Witness ==
  /\ ValidCreate /\ resp.status = 201
  /\ "star_rating" \in req.data.has /\ req.data.star_rating # NULL
  /\ DOMAIN pre # {}

\* C6: a successful update_game(id) sets exactly the columns whose keys the body has,
\* each to the body's value, and leaves the row's other columns and every other row
\* as they were.
C6_PartialUpdate ==
  (Answered("update_game") /\ resp.status = 200) =>
    /\ DOMAIN games = DOMAIN pre
    /\ req.id \in DOMAIN pre
    /\ \A f \in Fields :
         games[req.id][f] = IF f \in req.data.has THEN Vals(req.data)[f] ELSE pre[req.id][f]
    /\ OthersUnchanged(req.id)

\* A PUT with star_rating alone that changes it, on one of two stored rows.
C6_Witness ==
  /\ Answered("update_game") /\ resp.status = 200
  /\ req.data.has = {"star_rating"}
  /\ pre[req.id].star_rating # games[req.id].star_rating
  /\ games[req.id].title = pre[req.id].title
  /\ Cardinality(DOMAIN pre) = 2

\* C7: a delete_game(id) answering 204 removes that row and no other, and the next
\* get_game, update_game or delete_game of that id answers 404; delete_game of an
\* id without a row answers 404 and changes nothing.
C7_Delete ==
  /\ (Answered("delete_game") /\ resp.status = 204) =>
       /\ req.id \in DOMAIN pre
       /\ DOMAIN games = (DOMAIN pre) \ {req.id}
       /\ OthersUnchanged(req.id)
  /\ (Answered("delete_game") /\ req.id \notin DOMAIN pre) =>
       resp.status = 404 /\ resp.error = "Game not found" /\ games = pre
  /\ (pc = "done" /\ req.op \in {"get_game", "update_game", "delete_game"}
        /\ last_deleted # NULL /\ req.id = last_deleted) =>
       resp.status = 404 /\ games = pre

\* A get_game of the id the request before it deleted, while another row remains.
C7_Witness ==
  /\ Answered("get_game") /\ last_deleted # NULL /\ req.id = last_deleted
  /\ resp.status = 404 /\ DOMAIN games # {}

\* The body of an update_game request on a stored game names a missing row
UnknownReference ==
  /\ Answered("update_game") /\ req.id \in DOMAIN pre /\ ~not_data(req.data)
  /\ \/ "category_id" \in req.data.has /\ req.data.category_id \notin categories
     \/ "publisher_id" \in req.data.has /\ req.data.publisher_id \notin publishers

\* C8: update_game validates a supplied category_id and publisher_id before it
\* assigns anything: with either matching no row the answer is 400, nothing was
\* assigned in the session and no column of any game has changed.
C8_ValidateBeforeMutation ==
  UnknownReference =>
    /\ resp.status = 400
    /\ resp.error \in {"Category not found", "Publisher not found"}
    /\ session = {} /\ ~resp.rolled_back
    /\ games = pre

\* A body with a new title, a new star_rating, an existing category and a
\* publisher_id without a row.
C8_Witness ==
  /\ UnknownReference
  /\ {"title", "star_rating", "category_id", "publisher_id"} \subseteq req.data.has
  /\ req.data.title # pre[req.id].title /\ ~raises_ValueError("title", req.data)
  /\ req.data.star_rating # pre[req.id].star_rating
  /\ req.data.category_id \in categories /\ req.data.publisher_id \notin publishers
  /\ resp.error = "Publisher not found"

\* A create, update or delete request that ended in 400 or 404
Failed == pc = "done" /\ req.op \in Mutating /\ resp.status \in {400, 404}

\* C9 as claimed: every failed create, update or delete request has rolled the
\* session back before its response, and the table is as it was.
C9_AsClaimed == Failed => (resp.rolled_back /\ games = pre)

\* C9 as amended: a failed create, update or delete request has rolled the session
\* back exactly when it caught ValueError or IntegrityError; the failures found
\* before the try block (404, no body, missing fields, unknown category or
\* publisher) return without a rollback.  In every case the session holds no
\* pending change and the table is as it was.
C9_FailureLeavesNothing ==
  Failed =>
    /\ resp.rolled_back <=> resp.raised \in {"ValueError", "IntegrityError"}
    /\ session = {}
    /\ games = pre

\* An update whose title was assigned before the description raised ValueError.
C9_Witness ==
  /\ Failed /\ req.op = "update_game" /\ resp.raised = "ValueError"
  /\ {"title", "description"} \subseteq req.data.has
  /\ ~raises_ValueError("title", req.data) /\ raises_ValueError("description", req.data)
  /\ req.data.title # pre[req.id].title
  /\ resp.rolled_back

\* Both interleaved requests have updated the same game and committed
BothCommitted ==
  /\ \A p \in Requests : upd[p].at = "done" /\ upd[p].resp.status = 200
  /\ upd[1].id = upd[2].id

\* The request is refused for a reason of its own: its id, its body, or the
\* database's refusal of its commit
OwnFailure(p) ==
  \/ upd[p].resp.status = 404 /\ upd[p].id \notin DOMAIN games
  \/ upd[p].resp.status = 400 /\ not_data(upd[p].data)
  \/ /\ upd[p].resp.status = 400 /\ upd[p].resp.error = "Category not found"
     /\ "category_id" \in upd[p].data.has /\ upd[p].data.category_id \notin categories
  \/ /\ upd[p].resp.status = 400 /\ upd[p].resp.error = "Publisher not found"
     /\ "publisher_id" \in upd[p].data.has /\ upd[p].data.publisher_id \notin publishers
  \/ /\ upd[p].resp.status = 400 /\ upd[p].resp.raised = "ValueError"
     /\ \E f \in upd[p].data.has : raises_ValueError(f, upd[p].data)
  \/ upd[p].resp.status = 400 /\ upd[p].resp.raised = "IntegrityError"

=============================================================================
